---- MODULE Spec2Model ----
(***************************************************************************)
(* State-machine model of the four scheduling policies of schedulers.cpp   *)
(* (RoundRobin, ShortestProcessNext, ShortestRemainingTime,                *)
(* HighestResponseRatioNext) driven tick by tick by the simulation driver  *)
(* described in section 6 of the specification.                            *)
(*                                                                         *)
(* Process indices are 0-based as in the source: a roster is a function    *)
(* from 0..n-1 to Process records.  The deque `ready` is a sequence whose  *)
(* Head is ready[0].                                                       *)
(***************************************************************************)
EXTENDS Integers, Sequences, FiniteSets, TLC

\* ---------------------------------------------------------------- bounds
MaxProcs == 3
MaxStart == 2
MaxNeed == 2
PairMaxStart == 4
PairMaxNeed == 5
MaxQuantum == 2
BigNeed == 2947
MaxTimeBig == 6

\* ------------------------------------------------------------- variables
VARIABLES
    procList,          \* the roster: index -> Process record
    curTime,           \* the tick the driver presents next
    timeQuantum,       \* the quantum the driver passes on every call
    policy,            \* which of the four functions the driver calls
    pc,                \* "sched" | "apply" | "done" | "crashed"
    result,            \* value returned by the last call (NoCall before)
    timeToNextSched,   \* RoundRobin static
    ready,             \* RoundRobin static deque
    spnIndex, spnRunTime,      \* ShortestProcessNext statics
    srtIndex, srtRunTime,      \* ShortestRemainingTime statics
    hrrnIndex, hrrnRunTime,    \* HighestResponseRatioNext statics
    hist,              \* history: the value returned on each call so far
    qhist,             \* history: the ready queue left by each RoundRobin call
    undefinedStep      \* history: a call read ready[0] of an empty deque

vars == <<procList, curTime, timeQuantum, policy, pc, result,
          timeToNextSched, ready, spnIndex, spnRunTime, srtIndex,
          srtRunTime, hrrnIndex, hrrnRunTime, hist, qhist, undefinedStep>>

rrVars == <<timeToNextSched, ready>>
spnVars == <<spnIndex, spnRunTime>>
srtVars == <<srtIndex, srtRunTime>>
hrrnVars == <<hrrnIndex, hrrnRunTime>>
driverVars == <<procList, curTime, timeQuantum, policy>>

NoCall == 0 - 2
Idle == 0 - 1

\* ------------------------------------------------------- roster helpers
Size(pl) == Cardinality(DOMAIN pl)

Indices(pl) == 0 .. (Size(pl) - 1)

Process(s, n) ==
    [startTime |-> s, totalTimeNeeded |-> n, timeScheduled |-> 0,
     isDone |-> FALSE]

Eligible(pl, t, i) == pl[i].startTime <= t /\ ~pl[i].isDone

AnyEligible(pl, t) == \E i \in Indices(pl) : Eligible(pl, t, i)

AllDone(pl) == \A i \in Indices(pl) : pl[i].isDone

RECURSIVE MinStart(_, _)
MinStart(pl, i) ==
    IF i = Size(pl) - 1 THEN pl[i].startTime
    ELSE LET m == MinStart(pl, i + 1)
         IN  IF pl[i].startTime < m THEN pl[i].startTime ELSE m

FirstArrival(pl) == MinStart(pl, 0)

SmallRosters ==
    UNION { [0 .. (k - 1) -> { Process(s, n) : s \in 0 .. MaxStart,
                                               n \in 1 .. MaxNeed }]
            : k \in 1 .. MaxProcs }

PairRosters ==
    [0 .. 1 -> { Process(s, n) : s \in 0 .. PairMaxStart,
                                 n \in 1 .. PairMaxNeed }]

Rosters == SmallRosters \cup PairRosters

Policies == {"RR", "SPN", "SRT", "HRRN"}

\* The quantum is an argument of RoundRobin and ShortestRemainingTime only.
Quanta(p) == IF p \in {"RR", "SRT"} THEN 1 .. MaxQuantum ELSE {1}

\* ------------------------------------------------------------ RoundRobin
\* lines 15-21: push_back every index whose startTime equals curTime
RECURSIVE RRAdmit(_, _, _, _)
RRAdmit(rdy, i, t, pl) ==
    IF i >= Size(pl) THEN rdy
    ELSE RRAdmit(IF pl[i].startTime = t THEN Append(rdy, i) ELSE rdy,
                 i + 1, t, pl)

\* line 25: the rotation condition, for a non-empty deque
RRMustRotate(rdy, ttns, pl) == ttns = 0 \/ pl[Head(rdy)].isDone

\* mutant of RRRotate: the head is popped without being requeued
RRRotateNoRequeue(rdy, pl) == Tail(rdy)

\* lines 31-38: requeue the head if it is not done, then pop_front
RRRotate(rdy, pl) ==
    IF ~pl[Head(rdy)].isDone THEN Tail(Append(rdy, Head(rdy)))
    ELSE Tail(rdy)

\* lines 13-40 on a deque that is non-empty after admission
RRQueueAfter(rdy, ttns, t, pl) ==
    LET adm == RRAdmit(rdy, 0, t, pl)
    IN  IF RRMustRotate(adm, ttns, pl) THEN RRRotate(adm, pl) ELSE adm

\* mutant of RRCountAfter: the countdown restarts one tick too high
RRCountAfterLong(rdy, ttns, q, t, pl) ==
    IF RRMustRotate(RRAdmit(rdy, 0, t, pl), ttns, pl) THEN q + 1 ELSE ttns

\* mutant of RRCountAfter: the countdown is never reset
RRCountAfterNoReset(rdy, ttns, q, t, pl) == ttns

\* line 39: the countdown after the rotation check
RRCountAfter(rdy, ttns, q, t, pl) ==
    IF RRMustRotate(RRAdmit(rdy, 0, t, pl), ttns, pl) THEN q ELSE ttns

\* What a call that reads ready[0] of an empty deque may leave behind: the
\* read yields an arbitrary int, pop_front on an empty deque corrupts it.
UBQueues(pl) == {<<>>} \cup { <<i>> : i \in Indices(pl) }

\* The call on a deque that is non-empty after admission (defined behaviour)
RRDefined ==
    /\ RRAdmit(ready, 0, curTime, procList) # <<>>
    /\ LET rdy == RRQueueAfter(ready, timeToNextSched, curTime, procList)
           cnt == RRCountAfter(ready, timeToNextSched, timeQuantum,
                               curTime, procList)
       IN  /\ ready' = rdy
           /\ IF Len(rdy) > 0
              THEN /\ result' = Head(rdy)
                   /\ timeToNextSched' = cnt - 1
              ELSE /\ result' = Idle
                   /\ timeToNextSched' = 0
    /\ pc' = "apply"
    /\ hist' = Append(hist, result')
    /\ qhist' = Append(qhist, ready')
    /\ UNCHANGED undefinedStep

\* The call on a deque that is empty after admission: line 25 (or line 31
\* when timeToNextSched == 0) evaluates ready[0] of an empty deque, which
\* is undefined.  The call may crash; otherwise the isDone read through
\* the garbage index is either value, the deque is left in any state, and
\* size() at line 43 reads as zero or not: the countdown then follows
\* lines 39, 47 and 55, and the value returned is -1 or any index.
RRUndefined ==
    /\ RRAdmit(ready, 0, curTime, procList) = <<>>
    /\ undefinedStep' = TRUE
    /\ \/ /\ pc' = "crashed"
          /\ UNCHANGED <<result, ready, timeToNextSched, hist, qhist>>
       \/ /\ pc' = "apply"
          /\ ready' \in UBQueues(procList)
          /\ \E garbageDone \in BOOLEAN :
                LET cnt == IF timeToNextSched = 0 \/ garbageDone
                           THEN timeQuantum ELSE timeToNextSched
                IN  \/ /\ result' \in Indices(procList)
                       /\ timeToNextSched' = cnt - 1
                    \/ /\ result' = Idle
                       /\ timeToNextSched' = 0
          /\ hist' = Append(hist, result')
          /\ qhist' = Append(qhist, ready')

RoundRobin ==
    /\ pc = "sched"
    /\ policy = "RR"
    /\ (RRDefined \/ RRUndefined)
    /\ UNCHANGED <<driverVars, spnVars, srtVars, hrrnVars>>

\* ---------------------------------------- the skeleton of lines 64-194
\* lines 70-72 / 113-115 / 158-160: reset the run counter when the
\* process at index is done
ResetRunTime(index, runTime, pl) == IF pl[index].isDone THEN 0 ELSE runTime

\* lines 75-80 / 118-123 / 163-168: the first eligible process, when at a
\* decision point (runTime == 0)
RECURSIVE FirstNotDone(_, _, _, _, _)
FirstNotDone(y, index, runTime, t, pl) ==
    IF y >= Size(pl) THEN index
    ELSE IF ~pl[y].isDone /\ pl[y].startTime <= t /\ runTime = 0 THEN y
    ELSE FirstNotDone(y + 1, index, runTime, t, pl)

\* lines 91-99 / 136-144 / 184-192: -1 when every process is done
RECURSIVE CountDone(_, _)
CountDone(z, pl) ==
    IF z >= Size(pl) THEN 0
    ELSE (IF pl[z].isDone THEN 1 ELSE 0) + CountDone(z + 1, pl)

\* mutant of Returned: -1 as soon as the selected process is done
ReturnedDoneIndex(index, pl) == IF pl[index].isDone THEN Idle ELSE index

\* lines 97-101
Returned(index, pl) == IF CountDone(0, pl) = Size(pl) THEN Idle ELSE index

\* --------------------------------------------------- ShortestProcessNext
\* mutant of SPNBetter: <= in place of <, so that a later equal wins
SPNBetterOrEqual(x, index, runTime, t, pl) ==
    /\ pl[x].startTime <= t
    /\ pl[x].totalTimeNeeded <= pl[index].totalTimeNeeded
    /\ ~pl[x].isDone
    /\ runTime = 0

\* line 84: the replacement test of the second loop
SPNBetter(x, index, runTime, t, pl) ==
    /\ pl[x].startTime <= t
    /\ pl[x].totalTimeNeeded < pl[index].totalTimeNeeded
    /\ ~pl[x].isDone
    /\ runTime = 0

\* lines 83-87
RECURSIVE SPNScan(_, _, _, _, _)
SPNScan(x, index, runTime, t, pl) ==
    IF x >= Size(pl) THEN index
    ELSE SPNScan(x + 1,
                 IF SPNBetter(x, index, runTime, t, pl) THEN x ELSE index,
                 runTime, t, pl)

\* lines 70-87: the index after both loops
SPNSelect(index, runTime, t, pl) ==
    LET rt == ResetRunTime(index, runTime, pl)
    IN  SPNScan(0, FirstNotDone(0, index, rt, t, pl), rt, t, pl)

ShortestProcessNext ==
    /\ pc = "sched"
    /\ policy = "SPN"
    /\ spnIndex' = SPNSelect(spnIndex, spnRunTime, curTime, procList)
    /\ spnRunTime' = ResetRunTime(spnIndex, spnRunTime, procList) + 1
    /\ result' = Returned(spnIndex', procList)
    /\ pc' = "apply"
    /\ hist' = Append(hist, result')
    /\ UNCHANGED <<driverVars, rrVars, srtVars, hrrnVars, qhist, undefinedStep>>

\* ------------------------------------------------- ShortestRemainingTime
\* lines 127-128: remaining time (exact in float for the values modelled)
TimeRemaining(pl, i) == pl[i].totalTimeNeeded - pl[i].timeScheduled

\* mutant of SRTBetter: the key of ShortestProcessNext (total, not
\* remaining, time)
SRTBetterByTotal(x, index, runTime, t, pl) ==
    /\ pl[x].startTime <= t
    /\ pl[x].totalTimeNeeded < pl[index].totalTimeNeeded
    /\ ~pl[x].isDone
    /\ runTime = 0

\* mutant of SRTBetter: <= in place of <, so that a later equal wins
SRTBetterOrEqual(x, index, runTime, t, pl) ==
    /\ pl[x].startTime <= t
    /\ TimeRemaining(pl, x) <= TimeRemaining(pl, index)
    /\ ~pl[x].isDone
    /\ runTime = 0

\* line 129
SRTBetter(x, index, runTime, t, pl) ==
    /\ pl[x].startTime <= t
    /\ TimeRemaining(pl, x) < TimeRemaining(pl, index)
    /\ ~pl[x].isDone
    /\ runTime = 0

\* lines 126-132
RECURSIVE SRTScan(_, _, _, _, _)
SRTScan(x, index, runTime, t, pl) ==
    IF x >= Size(pl) THEN index
    ELSE SRTScan(x + 1,
                 IF SRTBetter(x, index, runTime, t, pl) THEN x ELSE index,
                 runTime, t, pl)

\* lines 113-132
SRTSelect(index, runTime, t, pl) ==
    LET rt == ResetRunTime(index, runTime, pl)
    IN  SRTScan(0, FirstNotDone(0, index, rt, t, pl), rt, t, pl)

\* line 133 is commented out: runTime is never incremented
ShortestRemainingTime ==
    /\ pc = "sched"
    /\ policy = "SRT"
    /\ srtIndex' = SRTSelect(srtIndex, srtRunTime, curTime, procList)
    /\ srtRunTime' = ResetRunTime(srtIndex, srtRunTime, procList)
    /\ result' = Returned(srtIndex', procList)
    /\ pc' = "apply"
    /\ hist' = Append(hist, result')
    /\ UNCHANGED <<driverVars, rrVars, spnVars, hrrnVars, qhist, undefinedStep>>

\* ---------------------------------------------- IEEE-754 single precision
\* A positive float is <<m, e>> with 2^23 <= m < 2^24 and value m * 2^e.
\* The int operands of lines 172-175 convert exactly (they are below 2^24);
\* the quotient is rounded to nearest, ties to even.
TwoTo23 == 8388608
TwoTo24 == 16777216

\* long division: (m + r/b) * 2^e is the exact quotient at every step
RECURSIVE FloatNormalize(_, _, _, _)
FloatNormalize(m, r, b, e) ==
    IF m >= TwoTo23 THEN <<m, r, e>>
    ELSE IF 2 * r >= b THEN FloatNormalize(2 * m + 1, 2 * r - b, b, e - 1)
    ELSE FloatNormalize(2 * m, 2 * r, b, e - 1)

FloatRound(m, r, b, e) ==
    LET up == 2 * r > b \/ (2 * r = b /\ m % 2 = 1)
        m1 == IF up THEN m + 1 ELSE m
    IN  IF m1 = TwoTo24 THEN <<TwoTo23, e + 1>> ELSE <<m1, e>>

\* the float quotient a / b of two positive ints below 2^24
FloatDiv(a, b) ==
    LET n == FloatNormalize(a \div b, a % b, b, 0)
    IN  FloatRound(n[1], n[2], b, n[3])

\* the quotients by zero: x / 0 is +infinity for x > 0 and NaN for x = 0
InfExp == 128
PosInf == <<TwoTo23, InfExp>>
NaN == <<0, 0>>

\* f > g on positive floats; false when either is NaN
FloatGreater(f, g) ==
    /\ f # NaN
    /\ g # NaN
    /\ (f[2] > g[2] \/ (f[2] = g[2] /\ f[1] > g[1]))

\* ---------------------------------------------- HighestResponseRatioNext
\* lines 172-173
TimeSpentWaiting(pl, t, i) == t - pl[i].startTime - pl[i].timeScheduled

\* lines 174-175: (waiting + totalTimeNeeded) / totalTimeNeeded as a float
Ratio(pl, t, i) ==
    IF pl[i].totalTimeNeeded # 0
    THEN FloatDiv(TimeSpentWaiting(pl, t, i) + pl[i].totalTimeNeeded,
                  pl[i].totalTimeNeeded)
    ELSE IF TimeSpentWaiting(pl, t, i) = 0 THEN NaN ELSE PosInf

\* mutant of HRRNBetter: the runTime == 0 guard is missing
HRRNBetterNoGuard(x, index, runTime, t, pl) ==
    /\ pl[x].startTime <= t
    /\ ~pl[x].isDone
    /\ FloatGreater(Ratio(pl, t, x), Ratio(pl, t, index))

\* line 177.  The ratios are compared only when x is eligible and
\* runTime == 0, where index is eligible too (set by the first loop) and
\* both ratios are positive; elsewhere the test is false whatever they are.
HRRNBetter(x, index, runTime, t, pl) ==
    /\ pl[x].startTime <= t
    /\ ~pl[x].isDone
    /\ runTime = 0
    /\ FloatGreater(Ratio(pl, t, x), Ratio(pl, t, index))

\* lines 171-180
RECURSIVE HRRNScan(_, _, _, _, _)
HRRNScan(x, index, runTime, t, pl) ==
    IF x >= Size(pl) THEN index
    ELSE HRRNScan(x + 1,
                  IF HRRNBetter(x, index, runTime, t, pl) THEN x ELSE index,
                  runTime, t, pl)

\* lines 158-180
HRRNSelect(index, runTime, t, pl) ==
    LET rt == ResetRunTime(index, runTime, pl)
    IN  HRRNScan(0, FirstNotDone(0, index, rt, t, pl), rt, t, pl)

HighestResponseRatioNext ==
    /\ pc = "sched"
    /\ policy = "HRRN"
    /\ hrrnIndex' = HRRNSelect(hrrnIndex, hrrnRunTime, curTime, procList)
    /\ hrrnRunTime' = ResetRunTime(hrrnIndex, hrrnRunTime, procList) + 1
    /\ result' = Returned(hrrnIndex', procList)
    /\ pc' = "apply"
    /\ hist' = Append(hist, result')
    /\ UNCHANGED <<driverVars, rrVars, spnVars, srtVars, qhist, undefinedStep>>

\* ------------------------------------------------------------ the driver
\* One tick of service to the returned index; isDone is set when
\* timeScheduled reaches totalTimeNeeded.
Serve(pl, i) ==
    [pl EXCEPT ![i].timeScheduled = @ + 1,
               ![i].isDone = @ \/ pl[i].timeScheduled + 1
                                     = pl[i].totalTimeNeeded]

\* The driver applies the decision and presents the next tick; the run ends
\* after the call that was made with every process done.
DriverApply ==
    /\ pc = "apply"
    /\ IF AllDone(procList)
       THEN /\ pc' = "done"
            /\ UNCHANGED <<procList, curTime>>
       ELSE /\ pc' = "sched"
            /\ procList' = IF result \in Indices(procList)
                           THEN Serve(procList, result) ELSE procList
            /\ curTime' = curTime + 1
    /\ UNCHANGED <<timeQuantum, policy, result, rrVars, spnVars, srtVars,
                   hrrnVars, hist, qhist, undefinedStep>>

\* --------------------------------------------------------- specification
InitStatics ==
    /\ timeToNextSched = timeQuantum
    /\ ready = <<>>
    /\ spnIndex = 0 /\ spnRunTime = 0
    /\ srtIndex = 0 /\ srtRunTime = 0
    /\ hrrnIndex = 0 /\ hrrnRunTime = 0

InitDriver ==
    /\ curTime = FirstArrival(procList)
    /\ pc = "sched"
    /\ result = NoCall
    /\ hist = <<>>
    /\ qhist = <<>>
    /\ undefinedStep = FALSE

Init ==
    /\ procList \in Rosters
    /\ policy \in Policies
    /\ timeQuantum \in Quanta(policy)
    /\ InitStatics
    /\ InitDriver

Next ==
    \/ RoundRobin
    \/ ShortestProcessNext
    \/ ShortestRemainingTime
    \/ HighestResponseRatioNext
    \/ DriverApply

Spec == Init /\ [][Next]_vars

\* A second specification for the single-precision comparison of line 177:
\* rosters whose service times are large enough for two different ratios
\* to round to the same float, driven for the first MaxTimeBig ticks.
BigRosters == [0 .. 2 -> { Process(0, n) : n \in {1, BigNeed, BigNeed + 1} }]

InitBig ==
    /\ procList \in BigRosters
    /\ policy = "HRRN"
    /\ timeQuantum = 1
    /\ InitStatics
    /\ InitDriver

DriverApplyBig == curTime < MaxTimeBig /\ DriverApply

NextBig == HighestResponseRatioNext \/ DriverApplyBig

SpecBig == InitBig /\ [][NextBig]_vars

\* A third specification for the unguarded division of lines 174-175:
\* rosters of two processes, at least one with totalTimeNeeded == 0 (it
\* never reaches isDone under the driver), for the first MaxTimeBig ticks.
ZeroRosters ==
    { r \in [0 .. 1 -> { Process(s, n) : s \in 0 .. MaxStart,
                                         n \in 0 .. MaxNeed }] :
          \E i \in 0 .. 1 : r[i].totalTimeNeeded = 0 }

InitZero ==
    /\ procList \in ZeroRosters
    /\ policy = "HRRN"
    /\ timeQuantum = 1
    /\ InitStatics
    /\ InitDriver

SpecZero == InitZero /\ [][NextBig]_vars

\* ================================================================ claims
\* ------------------------------------------------ helpers of the claims
\* the call the driver is about to make, and the call just made
Calling(p) == pc = "sched" /\ policy = p
Called(p) == pc = "apply" /\ policy = p

\* the previously returned process is done, or nothing was returned yet
DecisionPoint ==
    \/ result = NoCall
    \/ result \in Indices(procList) /\ procList[result].isDone

HasRoster(r) ==
    /\ Size(procList) = Len(r)
    /\ \A i \in Indices(procList) :
          /\ procList[i].startTime = r[i + 1][1]
          /\ procList[i].totalTimeNeeded = r[i + 1][2]

Prefix(h, s) == Len(h) >= Len(s) /\ SubSeq(h, 1, Len(s)) = s

RECURSIVE Occurrences(_, _)
Occurrences(h, i) ==
    IF h = <<>> THEN 0
    ELSE (IF Head(h) = i THEN 1 ELSE 0) + Occurrences(Tail(h), i)

RECURSIVE SumNeeded(_, _)
SumNeeded(pl, i) ==
    IF i >= Size(pl) THEN 0
    ELSE pl[i].totalTimeNeeded + SumNeeded(pl, i + 1)

RECURSIVE SumReturned(_, _, _)
SumReturned(h, pl, i) ==
    IF i >= Size(pl) THEN 0
    ELSE Occurrences(h, i) + SumReturned(h, pl, i + 1)

\* position in hist of the first call that returned i (0: never)
FirstPos(h, i) ==
    IF \E k \in 1 .. Len(h) : h[k] = i
    THEN CHOOSE k \in 1 .. Len(h) :
            h[k] = i /\ \A l \in 1 .. (k - 1) : h[l] # i
    ELSE 0

\* the set S of ints as an ascending sequence
Ascending(S) ==
    CHOOSE s \in [1 .. Cardinality(S) -> S] :
        \A k \in 1 .. (Cardinality(S) - 1) : s[k] < s[k + 1]

ArrivingAt(pl, t) == { i \in Indices(pl) : pl[i].startTime = t }

\* ------------------------------------------------------------------- C1
\* j takes the processor from i under ShortestRemainingTime: it is
\* eligible and its remaining time is smaller, or equal with a lower index
SRTBeats(j, i) ==
    /\ Eligible(procList, curTime, j)
    /\ \/ TimeRemaining(procList, j) < TimeRemaining(procList, i)
       \/ /\ TimeRemaining(procList, j) = TimeRemaining(procList, i)
          /\ j < i

C2_Conservation ==
    /\ \A i \in Indices(procList) :
          Occurrences(hist, i) <= procList[i].totalTimeNeeded
    /\ pc = "done"
          => SumReturned(hist, procList, 0) = SumNeeded(procList, 0)

\* ------------------------------------------------------------------- C3
RECURSIVE MaxStartOf(_, _)
MaxStartOf(pl, i) ==
    IF i = Size(pl) - 1 THEN pl[i].startTime
    ELSE LET m == MaxStartOf(pl, i + 1)
         IN  IF pl[i].startTime > m THEN pl[i].startTime ELSE m

\* every tick from the first arrival on either serves a process that is
\* not done or precedes the last arrival; one more call reports the end
CallBound(pl) ==
    (MaxStartOf(pl, 0) - FirstArrival(pl)) + SumNeeded(pl, 0) + 1

\* C3: every run reaches the call made with all processes done, which
\* returns -1, without an undefined step on the way: no call is undefined,
\* the run never needs more than CallBound calls, and it ends on -1.
C3_Termination ==
    /\ ~undefinedStep
    /\ pc # "crashed"
    /\ Len(hist) <= CallBound(procList)
    /\ pc = "done" => result = Idle

\* ------------------------------------------------------------------- C4
\* C4: once ShortestProcessNext or HighestResponseRatioNext has returned
\* i, every later call returns i until i is done; for P0(0,5), P1(3,1)
\* under HighestResponseRatioNext the calls of ticks 0..5 return
\* 0,0,0,0,0,1.
C4_NonPreemptive ==
    [][/\ ((Calling("SPN") \/ Calling("HRRN"))
              /\ result \in Indices(procList)
              /\ ~procList[result].isDone)
          => result' = result
       /\ (policy = "HRRN" /\ HasRoster(<<<<0, 5>>, <<3, 1>>>>)
              /\ Len(hist') >= 6)
          => Prefix(hist', <<0, 0, 0, 0, 0, 1>>)]_vars

\* the scenario has run to the switch at tick 5
C4_Witness ==
    /\ policy = "HRRN"
    /\ HasRoster(<<<<0, 5>>, <<3, 1>>>>)
    /\ hist = <<0, 0, 0, 0, 0, 1>>

\* ------------------------------------------------------------------- C5
\* C5: RoundRobin never reads the head of an empty ready queue.
C5_NeverReadsEmptyQueue == ~undefinedStep

\* ------------------------------------------------------------------- C6
AdmittedBefore(i, j) ==
    \/ procList[i].startTime < procList[j].startTime
    \/ procList[i].startTime = procList[j].startTime /\ i < j

\* C6: under RoundRobin a process admitted before another is returned for
\* the first time on an earlier tick.
C6_RoundRobinFIFO ==
    policy = "RR" =>
        \A i, j \in Indices(procList) :
            (AdmittedBefore(i, j) /\ FirstPos(hist, j) > 0)
               => /\ FirstPos(hist, i) > 0
                  /\ FirstPos(hist, i) < FirstPos(hist, j)

\* ------------------------------------------------------------------- C7
\* C7: a process index returned by ShortestProcessNext,
\* ShortestRemainingTime or HighestResponseRatioNext is eligible at that
\* call, and a call with no eligible process returns no index.
C7_ReturnsEligibleOnly ==
    (Called("SPN") \/ Called("SRT") \/ Called("HRRN"))
       => /\ result \in Indices(procList)
               => Eligible(procList, curTime, result)
          /\ (~AnyEligible(procList, curTime) /\ ~AllDone(procList))
               => result \notin Indices(procList)

\* ------------------------------------------------------------------- C8
\* the eligible process with the smallest totalTimeNeeded, lowest index
\* among equals
ShortestEligible ==
    CHOOSE i \in Indices(procList) :
        /\ Eligible(procList, curTime, i)
        /\ \A j \in Indices(procList) : Eligible(procList, curTime, j)
              => \/ procList[i].totalTimeNeeded < procList[j].totalTimeNeeded
                 \/ /\ procList[i].totalTimeNeeded
                          = procList[j].totalTimeNeeded
                    /\ i <= j

\* C8: at a decision point with an eligible process, ShortestProcessNext
\* returns the eligible process with the smallest totalTimeNeeded, the
\* lowest index among equals.
C8_SPNSelectsShortest ==
    [][(Calling("SPN") /\ DecisionPoint /\ AnyEligible(procList, curTime))
         => result' = ShortestEligible]_vars

\* ShortestProcessNext chose a process over an eligible one of lower
\* index, or the lower of two eligible processes with equal need
C8_Witness ==
    /\ Called("SPN")
    /\ result \in Indices(procList)
    /\ \E j \in Indices(procList) :
          /\ j < result
          /\ Eligible(procList, curTime, j)
          /\ procList[j].totalTimeNeeded > procList[result].totalTimeNeeded
          /\ procList[j].timeScheduled = 0
    /\ \E k \in Indices(procList) :
          /\ k > result
          /\ Eligible(procList, curTime, k)
          /\ procList[k].totalTimeNeeded = procList[result].totalTimeNeeded
          /\ procList[k].timeScheduled = 0

\* ------------------------------------------------------------------- C9
\* R(i) > R(j) as exact rationals
RatioExceeds(i, j) ==
    (TimeSpentWaiting(procList, curTime, i) + procList[i].totalTimeNeeded)
        * procList[j].totalTimeNeeded
    > (TimeSpentWaiting(procList, curTime, j) + procList[j].totalTimeNeeded)
        * procList[i].totalTimeNeeded

HighestRatioEligible ==
    CHOOSE i \in Indices(procList) :
        /\ Eligible(procList, curTime, i)
        /\ \A j \in Indices(procList) : Eligible(procList, curTime, j)
              => /\ ~RatioExceeds(j, i)
                 /\ (j < i => RatioExceeds(i, j))

\* C9: at a decision point with an eligible process,
\* HighestResponseRatioNext returns the eligible process of highest
\* response ratio, compared exactly, the lowest index among equals.
C9_HRRNSelectsHighestRatio ==
    [][(Calling("HRRN") /\ DecisionPoint /\ AnyEligible(procList, curTime))
         => result' = HighestRatioEligible]_vars

\* ------------------------------------------------------------------ C10
\* the ready queue after the admission of the processes arriving now
Admitted == ready \o Ascending(ArrivingAt(procList, curTime))

\* C10: at quantum expiry a head that is not done goes to the tail, behind
\* the processes admitted on this tick, the others keeping their order; a
\* head that is done is removed and not requeued; for quantum 2,
\* P0(0,3), P1(1,2) the calls of ticks 0..4 return 0,0,1,1,0.
C10_RequeueAtTail ==
    [][/\ (Calling("RR") /\ Admitted # <<>> /\ timeToNextSched = 0
              /\ ~procList[Head(Admitted)].isDone)
          => ready' = Tail(Admitted) \o <<Head(Admitted)>>
       /\ (Calling("RR") /\ Admitted # <<>>
              /\ procList[Head(Admitted)].isDone)
          => ready' = Tail(Admitted)
       /\ (policy = "RR" /\ timeQuantum = 2
              /\ HasRoster(<<<<0, 3>>, <<1, 2>>>>) /\ Len(hist') >= 5)
          => Prefix(hist', <<0, 0, 1, 1, 0>>)]_vars

\* P0 was requeued at tick 2 behind P1, and the scenario has run to tick 4
C10_Witness ==
    /\ policy = "RR"
    /\ timeQuantum = 2
    /\ HasRoster(<<<<0, 3>>, <<1, 2>>>>)
    /\ hist = <<0, 0, 1, 1, 0>>

\* ------------------------------------------------------------------ C11
\* the tick presented on the k-th call
TickOfCall(k) == FirstArrival(procList) + k - 1

InSeq(q, i) == \E k \in 1 .. Len(q) : q[k] = i

\* between calls a and b process i waits in the ready queue: i has
\* arrived, a slot of i ends with call a, call a + 1 requeues it, its next
\* slot starts with call b, and no process arrives on the ticks of calls
\* a + 1 .. b
WaitsBetween(i, a, b) ==
    /\ a + 1 < b
    /\ procList[i].startTime <= TickOfCall(a)
    /\ hist[a] = i
    /\ hist[b] = i
    /\ \A k \in (a + 1) .. (b - 1) : hist[k] # i /\ InSeq(qhist[k], i)
    /\ \A k \in (a + 1) .. b : ArrivingAt(procList, TickOfCall(k)) = {}

\* C11: with no arrival in between, a process requeued into a ready queue
\* of length n is returned again after at most (n - 1) * quantum ticks
\* (stated for the wait that the call just made has ended).
C11_FairnessBound ==
    (Called("RR") /\ result \in Indices(procList)) =>
        \A a \in 1 .. (Len(hist) - 2) :
            WaitsBetween(result, a, Len(hist))
               => Len(hist) - a - 1
                     <= (Len(qhist[a + 1]) - 1) * timeQuantum

\* a process waited a full quantum of each of two others
C11_Witness ==
    /\ Called("RR")
    /\ result \in Indices(procList)
    /\ \E a \in 1 .. (Len(hist) - 2) :
          /\ WaitsBetween(result, a, Len(hist))
          /\ Len(qhist[a + 1]) = 3
          /\ Len(hist) - a - 1 = 2 * timeQuantum

\* ------------------------------------------------------------------ C12
\* C12: ShortestProcessNext, ShortestRemainingTime and
\* HighestResponseRatioNext return -1 exactly on the calls made with every
\* process of the roster done.
C12_AllDoneDecision ==
    (Called("SPN") \/ Called("SRT") \/ Called("HRRN"))
       => (result = Idle <=> \A i \in Indices(procList) : procList[i].isDone)

\* the call made after the last of several processes finished returned -1,
\* in a run with an arrival gap (more calls than ticks of service)
C12_Witness ==
    /\ (Called("SPN") \/ Called("SRT") \/ Called("HRRN"))
    /\ Size(procList) >= 2
    /\ \A i \in Indices(procList) : procList[i].isDone
    /\ result = Idle
    /\ Len(hist) > SumNeeded(procList, 0) + 1

\* ------------------------------------------------------------------ C13
\* C13: a RoundRobin call that finds the ready queue empty after admission
\* returns -1, leaves the queue empty and leaves timeToNextSched at 0.
C13_IdleDecision ==
    [][(Calling("RR") /\ Admitted = <<>>)
         => /\ pc' = "apply"
            /\ result' = Idle
            /\ ready' = <<>>
            /\ timeToNextSched' = 0]_vars

\* ------------------------------------------------------------------ C14
\* C14: a HighestResponseRatioNext call on a roster with a process whose
\* totalTimeNeeded is 0 reports an error: it returns neither a process
\* index nor -1, and leaves index and runTime as they were.
C14_ZeroNeedReported ==
    [][(Calling("HRRN")
          /\ \E i \in Indices(procList) : procList[i].totalTimeNeeded = 0)
         => /\ result' \notin Indices(procList)
            /\ result' # Idle
            /\ UNCHANGED hrrnVars]_vars

\* ------------------------------------------------------------------ C15
\* the call about to be made rotates the head of a non-empty queue
Rotates ==
    /\ Admitted # <<>>
    /\ (timeToNextSched = 0 \/ procList[Head(Admitted)].isDone)

\* C15: after every RoundRobin call 0 <= timeToNextSched <= timeQuantum;
\* it is timeQuantum - 1 after a rotation that leaves a process at the
\* head and 0 after an idle decision.
C15_CountdownRange ==
    [][(Calling("RR") /\ pc' = "apply")
         => /\ 0 <= timeToNextSched'
            /\ timeToNextSched' <= timeQuantum
            /\ result' = Idle => timeToNextSched' = 0
            /\ (Rotates /\ result' # Idle)
                  => timeToNextSched' = timeQuantum - 1]_vars

\* a rotation at quantum expiry has handed the processor to another process
C15_Witness ==
    /\ Called("RR")
    /\ timeQuantum = 2
    /\ timeToNextSched = 1
    /\ Len(hist) >= 3
    /\ hist[Len(hist) - 1] \in Indices(procList)
    /\ hist[Len(hist) - 2] = hist[Len(hist) - 1]
    /\ ~procList[hist[Len(hist) - 1]].isDone
    /\ result \in Indices(procList)
    /\ result # hist[Len(hist) - 1]

\* ------------------------------------------------------------------ C16
\* C16: when a RoundRobin call returns, the ready queue holds each index
\* at most once and holds exactly the processes that have arrived and are
\* not done.
C16_QueueContents ==
    Called("RR") =>
        /\ \A k, l \in 1 .. Len(ready) : ready[k] = ready[l] => k = l
        /\ \A i \in Indices(procList) :
              InSeq(ready, i) <=> Eligible(procList, curTime, i)

\* ------------------------------------------------------------------ C17
\* the eligible process with the smallest remaining time, lowest index
\* among equals
ShortestRemainingEligible ==
    CHOOSE i \in Indices(procList) :
        /\ Eligible(procList, curTime, i)
        /\ \A j \in Indices(procList) : Eligible(procList, curTime, j)
              => \/ TimeRemaining(procList, i) < TimeRemaining(procList, j)
                 \/ /\ TimeRemaining(procList, i)
                          = TimeRemaining(procList, j)
                    /\ i <= j

C18_WorkConserving ==
    Called("RR") =>
        /\ result \in Indices(procList)
              => Eligible(procList, curTime, result)
        /\ result = Idle <=> ~AnyEligible(procList, curTime)

\* ------------------------------------------------------------------ C19
\* the number of consecutive calls, ending with call k, that returned
\* hist[k]
RECURSIVE RunLength(_, _)
RunLength(h, k) ==
    IF k > 1 /\ h[k - 1] = h[k] THEN 1 + RunLength(h, k - 1) ELSE 1

====
